---- MODULE Spec2Model ----
(***************************************************************************)
(* State-machine model of the ICMPv6 socket send path of NuttX             *)
(* (net/icmpv6/icmpv6_sendto.c, kept as src/unnamed/part_001):             *)
(* icmpv6_sendto(), its poll callback sendto_eventhandler(), the packet    *)
(* builder sendto_request() and the timeout test sendto_timeout().         *)
(*                                                                         *)
(* Every thread of Calls owns one ICMPv6 socket/connection and calls       *)
(* icmpv6_sendto() on it again and again.  The network lock has an owner:  *)
(* a thread holds it from net_lock() (line 447) to net_lockedwait() (line  *)
(* 479), which gives it up while the thread is blocked, and again from the *)
(* end of the wait to net_unlock() (line 484).  The parts of icmpv6_sendto *)
(* that run without the lock (lines 376-445 and the errout of lines        *)
(* 499-505) are steps of their own, one step for each access to the        *)
(* connection.  A poll cycle of a device holds the lock from PollBegin to  *)
(* PollEnd; the handlers of the callbacks registered on the device run     *)
(* inside it, and the driver takes the frame at its end.                   *)
(*                                                                         *)
(* The module also models env_foreach() (sched/environ/env_foreach.c, kept *)
(* as src/unnamed/part_000), which shares no state with the network code.  *)
(***************************************************************************)
EXTENDS Integers, Sequences, FiniteSets, TLC

VARIABLES
  live,       \* the threads that call icmpv6_sendto
  pc,         \* per thread: where it is in icmpv6_sendto
  args,       \* per thread: the arguments of the call and the socket's s_sndtimeo
  dev,        \* per thread: the local 'dev' (routed device, or NULL)
  state,      \* per thread: struct icmpv6_sendto_s (without snd_sem and snd_cb)
  snd_sem,    \* per thread: count of state.snd_sem
  cb,         \* per thread: the callback instance state.snd_cb points to
  ret,        \* per thread: the value returned by the last call
  conn,       \* per connection: id, nreqs, dev
  readahead,  \* per connection: the read-ahead queue of echo replies
  device,     \* per device: d_len, d_sndlen and the frame in d_buf
  clock,      \* clock_systimer()
  netlock,    \* holder of the network lock (0: free)
  poll,       \* the device whose poll cycle is running (or NULL)
  h,          \* per thread: what happened during the current call (history)
  ev,         \* the handler invocation that has just run (history)
  env,        \* env_foreach: the group's environment and the traversal's locals
  ee          \* ee24xx: the device's geometry, the open file and ee24xx_write's locals

\* The state of the network send path, and the state outside it
netvars == <<live, pc, args, dev, state, snd_sem, cb, ret, conn, readahead,
             device, clock, netlock, poll, h, ev>>
other == <<env, ee>>
vars == <<netvars, other>>

(***************************************************************************)
(* Bounds of the model                                                     *)
(***************************************************************************)
MaxTick == 2
MaxTimeo == 1
MaxQueue == 1
MaxEnv == 3
MaxPages == 2
MaxOpens == 257
MaxCalls == 2

(***************************************************************************)
(* Program constants                                                       *)
(***************************************************************************)
ICMPv6_HDRLEN == 8
IPv6_HDRLEN == 40
SOCKADDR_IN6_SIZE == 28
ICMPv6_ECHO_REQUEST == 128
OKK == 0
EINTR == 4
ENOMEM == 12
EINVAL == 22
ENETUNREACH == 101
ETIMEDOUT == 110
UINT16_BITS == 16
IP_PROTO_ICMP6 == 58

NULL == 0
Calls == {1, 2}
Devices == {1, 2}
EETasks == {1, 2}
\* The lock holder that stands for the context running a poll cycle
PollCtx == Cardinality(Calls) + 1

NETDEV_DOWN == "NETDEV_DOWN"
ICMPv6_POLL == "ICMPv6_POLL"
ICMPv6_NEWDATA == "ICMPv6_NEWDATA"
EventFlags == {NETDEV_DOWN, ICMPv6_POLL, ICMPv6_NEWDATA}

(***************************************************************************)
(* Addresses.  A 128-bit address is a pair <<prefix, host>>; a netmask     *)
(* says for each part whether it takes part in the comparison.             *)
(***************************************************************************)
d_ipv6addr(d) == <<d, 1>>
d_ipv6netmask(d) == <<TRUE, FALSE>>

net_ipv6addr_maskcmp(a, b, mask) ==
  \A i \in 1..2 : mask[i] => a[i] = b[i]

\* Destinations: on the subnet of device 1, on the subnet of device 2, and
\* one on no device's subnet, sent through the default device 1.
Dests == {<<1, 2>>, <<2, 2>>, <<3, 1>>}

\* The device the destination is routed through; the lookup may also find
\* no device at all.
netdev_findby_ripv6addr(to) ==
  {NULL} \cup
  (IF \E d \in Devices : net_ipv6addr_maskcmp(to, d_ipv6addr(d), d_ipv6netmask(d))
     THEN {d \in Devices : net_ipv6addr_maskcmp(to, d_ipv6addr(d), d_ipv6netmask(d))}
     ELSE {1})

(***************************************************************************)
(* The inputs of a call                                                    *)
(***************************************************************************)
Types == {ICMPv6_ECHO_REQUEST, ICMPv6_ECHO_REQUEST + 1}
Ids == {1, 2}
Lens == {ICMPv6_HDRLEN - 1, ICMPv6_HDRLEN, 2^UINT16_BITS + ICMPv6_HDRLEN}
ToLens == {SOCKADDR_IN6_SIZE - 1, SOCKADDR_IN6_SIZE}
Timeouts == 0..MaxTimeo

\* What the caller left in the checksum and sequence-number fields of the
\* echo header it passes in 'buf'
CallerChksums == {4660}
CallerSeqnos == {1}

ValidArgs ==
  [type : Types, id : Ids, len : {n \in Lens : n >= ICMPv6_HDRLEN},
   tolen : {SOCKADDR_IN6_SIZE}, to : Dests, timeo : Timeouts,
   chksum : CallerChksums, seqno : CallerSeqnos]

\* A call with an undersized buffer or address reads none of its other inputs
InvalidArgs ==
  [type : {ICMPv6_ECHO_REQUEST}, id : {1}, len : Lens, tolen : ToLens,
   to : {<<1, 2>>}, timeo : {0}, chksum : CallerChksums,
   seqno : CallerSeqnos] \ ValidArgs

ArgSpace == ValidArgs \cup InvalidArgs

NoArgs ==
  [type |-> ICMPv6_ECHO_REQUEST, id |-> 1, len |-> ICMPv6_HDRLEN,
   tolen |-> SOCKADDR_IN6_SIZE, to |-> <<1, 2>>, timeo |-> 0,
   chksum |-> 0, seqno |-> 0]

(***************************************************************************)
(* Initial values                                                          *)
(***************************************************************************)
EmptySession == [id |-> 0, nreqs |-> 0, dev |-> NULL]
NoCallback == [alloc |-> FALSE, flags |-> {}, priv |-> NULL, event |-> FALSE]
\* struct icmpv6_echo_request_s: type, (code,) chksum, id, seqno
NoBuf == [type |-> 0, chksum |-> 0, id |-> 0, seqno |-> 0]
NoState ==
  [snd_time |-> 0, snd_buflen |-> 0, snd_result |-> 0, snd_toaddr |-> <<0, 0>>,
   snd_buf |-> NoBuf]
\* The content of d_buf: the IPv6 header and, after it, what was copied of
\* the caller's buffer
NoPacket ==
  [vtc |-> 0, tcf |-> 0, flow |-> 0, len |-> <<0, 0>>, proto |-> 0, ttl |-> 0,
   srcipaddr |-> <<0, 0>>, destipaddr |-> <<0, 0>>, icmpv6 |-> NoBuf, copied |-> 0]
NoFrame == [d_len |-> 0, d_sndlen |-> 0, d_buf |-> NoPacket]
NoHistory ==
  [posts |-> 0, path |-> "none", sig |-> FALSE, dropped |-> 0, flushes |-> 0,
   matched |-> FALSE, queued |-> 0, registered |-> FALSE, notified |-> FALSE,
   blocked |-> FALSE, fail |-> "none", copied |-> 0, mismatch |-> FALSE,
   built |-> 0, lastecho |-> 0]
NoEv == [call |-> 0]
\* env_foreach is not running, on an empty environment
NoTraversal ==
  [pc |-> "idle", strings |-> <<>>, tg_envp |-> <<>>, ptr |-> 0, ret |-> 0,
   visited |-> <<>>]

\* No EEPROM device is registered.  The fields up to 'refs' are struct
\* ee24xx_dev_s; 'balance' counts the opens less the closes that returned OK;
\* the others are, per task, its open file, the locals of the operation it is
\* in and what it asked for and transferred in that operation.
NoEE ==
  [size |-> 0, pgsize |-> 0, readonly |-> FALSE, sem |-> 1, refs |-> 0,
   balance |-> 0,
   live |-> {},
   budget |-> [t \in EETasks |-> 0],
   pc |-> [t \in EETasks |-> "closed"],
   op |-> [t \in EETasks |-> "none"],
   f_pos |-> [t \in EETasks |-> 0],
   len |-> [t \in EETasks |-> 0],
   cnt |-> [t \in EETasks |-> 0],
   pageoff |-> [t \in EETasks |-> 0],
   offset |-> [t \in EETasks |-> 0],
   whence |-> [t \in EETasks |-> 0],
   ret |-> [t \in EETasks |-> 0],
   savelen |-> [t \in EETasks |-> 0],
   pos0 |-> [t \in EETasks |-> 0],
   reqlen |-> [t \in EETasks |-> 0],
   xfers |-> [t \in EETasks |-> <<>>],
   reads |-> [t \in EETasks |-> <<>>]]

InitWith(threads) ==
  /\ live = threads
  /\ pc = [t \in Calls |-> "idle"]
  /\ args = [t \in Calls |-> NoArgs]
  /\ dev = [t \in Calls |-> NULL]
  /\ state = [t \in Calls |-> NoState]
  /\ snd_sem = [t \in Calls |-> 0]
  /\ cb = [t \in Calls |-> NoCallback]
  /\ ret = [t \in Calls |-> 0]
  /\ conn = [t \in Calls |-> EmptySession]
  /\ readahead = [t \in Calls |-> <<>>]
  /\ device = [d \in Devices |-> NoFrame]
  /\ clock = 0
  /\ netlock = 0
  /\ poll = NULL
  /\ h = [t \in Calls |-> NoHistory]
  /\ ev = NoEv

Init == InitWith({1}) /\ env = NoTraversal /\ ee = NoEE


(***************************************************************************)
(* Pure parts of icmpv6_sendto                                             *)
(***************************************************************************)
\* state.snd_buflen = len: a size_t stored in a uint16_t
snd_buflen_of(len) == len % (2^UINT16_BITS)

\* "If we are no longer processing the same ping ID": the test of the flush
SessionMismatch_anydev(a, d, c) ==
  \/ a.type # ICMPv6_ECHO_REQUEST
  \/ a.id # c.id
  \/ d # NULL

SessionMismatch_idonly(a, d, c) ==
  \/ a.type # ICMPv6_ECHO_REQUEST
  \/ a.id # c.id

SessionMismatch(a, d, c) ==
  \/ a.type # ICMPv6_ECHO_REQUEST
  \/ a.id # c.id
  \/ d # c.dev

\* conn->id = 0; conn->nreqs = 0; conn->dev = NULL (at the flush and at errout)
ResetSession_keepdev(c) == [c EXCEPT !.id = 0, !.nreqs = 0]

ResetSession_keepnreqs(c) == [c EXCEPT !.id = 0, !.dev = NULL]

ResetSession(c) == [c EXCEPT !.id = 0, !.nreqs = 0, !.dev = NULL]

\* iob_free_queue(&conn->readahead)
iob_free_queue(q) == <<>>

\* "Setup to receive ICMPv6 ECHO replies" and conn->dev = dev
SessionUpdate_count(a, d, c) ==
  [id |-> IF a.type = ICMPv6_ECHO_REQUEST THEN a.id ELSE c.id,
   nreqs |-> IF a.type = ICMPv6_ECHO_REQUEST THEN c.nreqs + 1 ELSE c.nreqs,
   dev |-> d]

SessionUpdate_echoonly(a, d, c) ==
  IF a.type = ICMPv6_ECHO_REQUEST THEN [id |-> a.id, nreqs |-> 1, dev |-> d]
                                  ELSE c

SessionUpdate(a, d, c) ==
  [id |-> IF a.type = ICMPv6_ECHO_REQUEST THEN a.id ELSE c.id,
   nreqs |-> IF a.type = ICMPv6_ECHO_REQUEST THEN 1 ELSE c.nreqs,
   dev |-> d]

\* The result the state starts with once the callback is allocated
PreSeed_unset == -ENOMEM

PreSeed == -EINTR

\* "Return the negated error number in the event of a failure, or the number
\* of bytes sent on success"
ReturnValue_result(len, result) == result

ReturnValue(len, result) == IF result < 0 THEN result ELSE len

(***************************************************************************)
(* The ways icmpv6_sendto ends                                             *)
(***************************************************************************)
\* return value;
Return(t, value) ==
  /\ pc' = [pc EXCEPT ![t] = "done"]
  /\ ret' = [ret EXCEPT ![t] = value]

\* ret = code; goto errout;
goto_errout(t, code) ==
  /\ pc' = [pc EXCEPT ![t] = "errout"]
  /\ ret' = [ret EXCEPT ![t] = code]

\* lines 490-497: a negative result leaves through errout, any other returns len
Exit(t, result) ==
  IF result < 0
    THEN goto_errout(t, ReturnValue(args[t].len, result))
    ELSE Return(t, ReturnValue(args[t].len, result))

\* errout, lines 500-502: the session is reset.  The lock is not held.
errout(t) ==
  /\ pc[t] = "errout"
  /\ conn' = [conn EXCEPT ![t] = ResetSession(@)]
  /\ pc' = [pc EXCEPT ![t] = "errout_flush"]
  /\ ev' = NoEv
  /\ UNCHANGED <<other, live, args, dev, state, snd_sem, cb, ret, readahead,
                 device, clock, netlock, poll, h>>

\* errout, lines 504-505: the queue is flushed and the error returned
errout_flush(t) ==
  /\ pc[t] = "errout_flush"
  /\ readahead' = [readahead EXCEPT ![t] = iob_free_queue(@)]
  /\ h' = [h EXCEPT ![t].flushes = @ + 1, ![t].dropped = @ + Len(readahead[t])]
  /\ Return(t, ret[t])
  /\ ev' = NoEv
  /\ UNCHANGED <<other, live, args, dev, state, snd_sem, cb, conn, device,
                 clock, netlock, poll>>

(***************************************************************************)
(* icmpv6_sendto, from its entry to net_lock(): no lock is held            *)
(***************************************************************************)
\* The sanity check of line 381 rejects the call
BadArgs_lenonly(a) == a.len < ICMPv6_HDRLEN

BadArgs(a) == a.len < ICMPv6_HDRLEN \/ a.tolen < SOCKADDR_IN6_SIZE

\* Lines 376-413: the sanity check, the device lookup, the test of the
\* session and, on a mismatch, the reset of id, nreqs and dev
Start(t, a, d) ==
  /\ t \in live
  /\ pc[t] = "idle"
  /\ LET mism == SessionMismatch(a, d, conn[t])
         same == /\ a.type = ICMPv6_ECHO_REQUEST
                 /\ a.id = conn[t].id
                 /\ d = conn[t].dev
         h0 == [NoHistory EXCEPT !.matched = ~BadArgs(a) /\ d # NULL /\ same,
                                 !.mismatch = ~BadArgs(a) /\ d # NULL /\ ~same,
                                 !.queued = Len(readahead[t]),
                                 !.lastecho =
                                   IF ~BadArgs(a) /\ a.type = ICMPv6_ECHO_REQUEST
                                     THEN a.id ELSE h[t].lastecho]
     IN
       /\ args' = [args EXCEPT ![t] = a]
       /\ ev' = NoEv
       /\ state' = [state EXCEPT ![t] = NoState]
       /\ UNCHANGED <<other, live, snd_sem, cb, readahead, device, clock,
                      netlock, poll>>
       /\ CASE BadArgs(a) ->
                 /\ Return(t, -EINVAL)
                 /\ dev' = [dev EXCEPT ![t] = NULL]
                 /\ h' = [h EXCEPT ![t] = [h0 EXCEPT !.fail = "args"]]
                 /\ UNCHANGED conn
            [] ~BadArgs(a) /\ d = NULL ->
                 /\ goto_errout(t, -ENETUNREACH)
                 /\ dev' = [dev EXCEPT ![t] = NULL]
                 /\ h' = [h EXCEPT ![t] = [h0 EXCEPT !.fail = "nodev"]]
                 /\ UNCHANGED conn
            [] ~BadArgs(a) /\ d # NULL /\ mism ->
                 /\ conn' = [conn EXCEPT ![t] = ResetSession(@)]
                 /\ pc' = [pc EXCEPT ![t] = "flush"]
                 /\ dev' = [dev EXCEPT ![t] = d]
                 /\ h' = [h EXCEPT ![t] = h0]
                 /\ UNCHANGED ret
            [] ~BadArgs(a) /\ d # NULL /\ ~mism ->
                 /\ pc' = [pc EXCEPT ![t] = "neighbor"]
                 /\ dev' = [dev EXCEPT ![t] = d]
                 /\ h' = [h EXCEPT ![t] = h0]
                 /\ UNCHANGED <<ret, conn>>

\* Line 415: the queue is flushed after the reset of the session
flush(t) ==
  /\ pc[t] = "flush"
  /\ readahead' = [readahead EXCEPT ![t] = iob_free_queue(@)]
  /\ h' = [h EXCEPT ![t].flushes = @ + 1, ![t].dropped = @ + Len(readahead[t])]
  /\ pc' = [pc EXCEPT ![t] = "neighbor"]
  /\ ev' = NoEv
  /\ UNCHANGED <<other, live, args, dev, state, snd_sem, cb, ret, conn, device,
                 clock, netlock, poll>>

\* state.snd_result = -ENOMEM: "Assume allocation failure"
AssumeAllocFailure_eintr == -EINTR

AssumeAllocFailure == -ENOMEM

\* Lines 436-445: the state structure as it is set up before net_lock()
InitState(a) ==
  [snd_time |-> 0, snd_buflen |-> snd_buflen_of(a.len),
   snd_result |-> AssumeAllocFailure, snd_toaddr |-> a.to,
   snd_buf |-> [type |-> a.type, chksum |-> a.chksum, id |-> a.id,
                seqno |-> a.seqno]]

\* Lines 418-445: icmpv6_neighbor() and the set-up of the state structure
neighbor(t, nbok) ==
  /\ pc[t] = "neighbor"
  /\ ev' = NoEv
  /\ UNCHANGED <<other, live, args, dev, snd_sem, cb, conn, readahead, device,
                 clock, netlock, poll>>
  /\ IF nbok
       THEN /\ state' = [state EXCEPT ![t] = InitState(args[t])]
            /\ pc' = [pc EXCEPT ![t] = "lock"]
            /\ UNCHANGED <<ret, h>>
       ELSE /\ goto_errout(t, -ENETUNREACH)
            /\ h' = [h EXCEPT ![t].fail = "neighbor"]
            /\ UNCHANGED state

(***************************************************************************)
(* icmpv6_sendto under the network lock                                    *)
(***************************************************************************)
\* net_lock(), line 447
net_lock(t) ==
  /\ pc[t] = "lock"
  /\ netlock = 0
  /\ netlock' = t
  /\ pc' = [pc EXCEPT ![t] = "locked"]
  /\ ev' = NoEv
  /\ UNCHANGED <<other, live, args, dev, state, snd_sem, cb, ret, conn,
                 readahead, device, clock, poll, h>>

\* net_unlock(), line 484
net_unlock(t) == 0

\* icmpv6_callback_free(), line 481
icmpv6_callback_free_leak(c) == c

icmpv6_callback_free(c) == NoCallback

\* Lines 455-457: the callback as icmpv6_sendto sets it up
callback_setup_noevent(t) ==
  [alloc |-> TRUE, flags |-> {ICMPv6_POLL, NETDEV_DOWN}, priv |-> t,
   event |-> FALSE]

callback_setup(t) ==
  [alloc |-> TRUE, flags |-> {ICMPv6_POLL, NETDEV_DOWN}, priv |-> t,
   event |-> TRUE]

\* Lines 448-468: the callback is allocated and set up and the session
\* updated; or no callback can be allocated and lines 484-495 unlock and
\* leave through errout with the assumed -ENOMEM.
Setup(t, allocok) ==
  /\ pc[t] = "locked"
  /\ netlock = t
  /\ ev' = NoEv
  /\ snd_sem' = [snd_sem EXCEPT ![t] = 0]
  /\ UNCHANGED <<other, live, args, dev, readahead, device, clock, poll>>
  /\ IF allocok
       THEN /\ state' = [state EXCEPT ![t].snd_time = clock,
                                      ![t].snd_result = PreSeed]
            /\ cb' = [cb EXCEPT ![t] = callback_setup(t)]
            /\ conn' = [conn EXCEPT ![t] = SessionUpdate(args[t], dev[t], @)]
            /\ h' = [h EXCEPT ![t].registered = TRUE]
            /\ pc' = [pc EXCEPT ![t] = "registered"]
            /\ UNCHANGED <<ret, netlock>>
       ELSE /\ state' = [state EXCEPT ![t] = NoState]
            /\ netlock' = net_unlock(t)
            /\ h' = [h EXCEPT ![t].fail = "alloc"]
            /\ Exit(t, state[t].snd_result)
            /\ UNCHANGED <<cb, conn>>

\* Line 472: the driver is told that there is data to send
netdev_txnotify_dev(t) ==
  /\ pc[t] = "registered"
  /\ netlock = t
  /\ h' = [h EXCEPT ![t].notified = TRUE]
  /\ pc' = [pc EXCEPT ![t] = "notified"]
  /\ ev' = NoEv
  /\ UNCHANGED <<other, live, args, dev, state, snd_sem, cb, ret, conn,
                 readahead, device, clock, netlock, poll>>

\* Line 479: the thread blocks on snd_sem; the lock is given up for the
\* time of the wait
net_lockedwait(t) ==
  /\ pc[t] = "notified"
  /\ netlock = t
  /\ netlock' = 0
  /\ h' = [h EXCEPT ![t].blocked = TRUE]
  /\ pc' = [pc EXCEPT ![t] = "waiting"]
  /\ ev' = NoEv
  /\ UNCHANGED <<other, live, args, dev, state, snd_sem, cb, ret, conn,
                 readahead, device, clock, poll>>

(***************************************************************************)
(* sendto_timeout, sendto_request and sendto_eventhandler                  *)
(***************************************************************************)
\* net_timeo(start, timeo): the ticks elapsed since start reach timeo
net_timeo(start, timeo) == clock - start >= timeo

sendto_timeout_nostart(t) ==
  /\ args[t].timeo # 0
  /\ net_timeo(0, args[t].timeo)

sendto_timeout_never(t) == FALSE

sendto_timeout_nozero(t) ==
  net_timeo(state[t].snd_time, args[t].timeo)

sendto_timeout(t) ==
  /\ args[t].timeo # 0
  /\ net_timeo(state[t].snd_time, args[t].timeo)

\* 16-bit ones'-complement arithmetic: the sum with end-around carry
WordMask == 2^UINT16_BITS - 1

add1c(x, y) ==
  LET sum == x + y IN IF sum > WordMask THEN (sum % 2^UINT16_BITS) + 1 ELSE sum

RECURSIVE sum1c(_)
sum1c(words) ==
  IF words = <<>> THEN 0 ELSE add1c(Head(words), sum1c(Tail(words)))

\* The 16-bit words the checksum covers: the pseudo-header (upper-layer
\* length, next header, source and destination address) and the ICMPv6
\* message in the buffer (type and code, checksum, identifier, sequence
\* number)
chksum_words(pkt) ==
  <<pkt.len[1] * 256 + pkt.len[2], pkt.proto,
    pkt.srcipaddr[1], pkt.srcipaddr[2], pkt.destipaddr[1], pkt.destipaddr[2],
    pkt.icmpv6.type * 256, pkt.icmpv6.chksum, pkt.icmpv6.id, pkt.icmpv6.seqno>>

\* icmpv6_chksum(dev, IPv6_HDRLEN): the ones'-complement sum over the
\* pseudo-header and the ICMPv6 message of the frame in d_buf
icmpv6_chksum(pkt) == sum1c(chksum_words(pkt))

\* Lines 199-204: the checksum field is zeroed, the complement of the sum is
\* stored in it, and a zero is replaced by 0xffff
set_chksum_nozero(pkt) ==
  LET chksum == WordMask - icmpv6_chksum(pkt)
  IN [pkt EXCEPT !.icmpv6.chksum = IF chksum = 0 THEN WordMask ELSE chksum]

set_chksum(pkt) ==
  LET zeroed == [pkt EXCEPT !.icmpv6.chksum = 0]
      chksum == WordMask - icmpv6_chksum(zeroed)
  IN [pkt EXCEPT !.icmpv6.chksum = IF chksum = 0 THEN WordMask ELSE chksum]

\* The device as sendto_request leaves it: d_len, d_sndlen, the IPv6 header,
\* the copy of the caller's buffer and its checksum
sendto_request(d, st) ==
  [d_len |-> IPv6_HDRLEN + st.snd_buflen,
   d_sndlen |-> device[d].d_sndlen + st.snd_buflen,
   d_buf |-> set_chksum(
               [vtc |-> 96, tcf |-> 0, flow |-> 0,
                len |-> <<st.snd_buflen \div 256, st.snd_buflen % 256>>,
                proto |-> IP_PROTO_ICMP6, ttl |-> 255,
                srcipaddr |-> d_ipv6addr(d), destipaddr |-> st.snd_toaddr,
                icmpv6 |-> st.snd_buf, copied |-> st.snd_buflen])]

\* The failure a timeout is reported as
failcode_timedout(to, d) == -ETIMEDOUT

failcode(to, d) ==
  IF ~net_ipv6addr_maskcmp(to, d_ipv6addr(d), d_ipv6netmask(d))
    THEN -ENETUNREACH
    ELSE -ETIMEDOUT

EventRule_sendfirst(t, flags) ==
  IF device[dev[t]].d_sndlen <= 0 /\ ICMPv6_NEWDATA \notin flags THEN "send"
  ELSE IF NETDEV_DOWN \in flags THEN "down"
  ELSE IF sendto_timeout(t) THEN "timeout"
  ELSE "wait"

EventRule_timeoutfirst(t, flags) ==
  IF NETDEV_DOWN \in flags THEN "down"
  ELSE IF sendto_timeout(t) THEN "timeout"
  ELSE IF device[dev[t]].d_sndlen <= 0 /\ ICMPv6_NEWDATA \notin flags THEN "send"
  ELSE "wait"

\* Which branch of the handler an invocation takes
EventRule(t, flags) ==
  IF NETDEV_DOWN \in flags THEN "down"
  ELSE IF device[dev[t]].d_sndlen <= 0 /\ ICMPv6_NEWDATA \notin flags THEN "send"
  ELSE IF sendto_timeout(t) THEN "timeout"
  ELSE "wait"

EventResult_sendkeeps(t, rule) ==
  CASE rule = "down" -> -ENETUNREACH
    [] rule = "timeout" -> failcode(state[t].snd_toaddr, dev[t])
    [] OTHER -> state[t].snd_result

\* The result each branch stores
EventResult(t, rule) ==
  CASE rule = "down" -> -ENETUNREACH
    [] rule = "send" -> OKK
    [] rule = "timeout" -> failcode(state[t].snd_toaddr, dev[t])
    [] OTHER -> state[t].snd_result

end_wait_keep(c) == c

end_wait_keepflags(c) == [c EXCEPT !.priv = NULL, !.event = FALSE]

\* end_wait: "Do not allow any further callbacks"
end_wait(c) == [c EXCEPT !.flags = {}, !.priv = NULL, !.event = FALSE]

\* return flags: the handler returns the flags it was passed
returned_flags_consumed(flags) == flags \ {ICMPv6_POLL}

returned_flags(flags) == flags

\* One invocation of the callback by the poll cycle of its device, which
\* calls only a callback that has a handler and an interest in the flags.
sendto_eventhandler(t, flags) ==
  /\ netlock = PollCtx
  /\ cb[t].alloc
  /\ poll = dev[t]
  /\ cb[t].event
  /\ cb[t].flags \cap flags # {}
  /\ cb[t].priv # NULL
  /\ LET rule == EventRule(t, flags)
         d == dev[t]
     IN
       /\ ev' = [call |-> t, flags |-> flags, retflags |-> returned_flags(flags),
                 rule |-> rule,
                 before |-> device[d],
                 elapsed |-> clock - state[t].snd_time]
       /\ IF rule = "wait"
            THEN UNCHANGED <<state, device, cb, snd_sem, h>>
            ELSE /\ state' = [state EXCEPT ![t].snd_result = EventResult(t, rule)]
                 /\ device' = IF rule = "send"
                                THEN [device EXCEPT ![d] = sendto_request(d, state[t])]
                                ELSE device
                 /\ cb' = [cb EXCEPT ![t] = end_wait(@)]
                 /\ snd_sem' = [snd_sem EXCEPT ![t] = @ + 1]
                 /\ h' = [h EXCEPT ![t].posts = @ + 1, ![t].path = rule,
                                   ![t].copied =
                                     IF rule = "send"
                                       THEN sendto_request(d, state[t]).d_buf.copied
                                       ELSE @,
                                   ![t].built = IF rule = "send" THEN @ + 1 ELSE @]
       /\ UNCHANGED <<other, live, pc, args, dev, ret, conn, readahead, clock, netlock,
                      poll>>

(***************************************************************************)
(* net_lockedwait(&state.snd_sem) and the rest of icmpv6_sendto            *)
(***************************************************************************)
WakeUp_timed(t) ==
  /\ pc[t] = "waiting"
  /\ netlock = 0
  /\ snd_sem[t] > 0 \/ sendto_timeout(t)
  /\ snd_sem' = [snd_sem EXCEPT ![t] = IF @ > 0 THEN @ - 1 ELSE @]
  /\ netlock' = t
  /\ pc' = [pc EXCEPT ![t] = "woken"]
  /\ ev' = NoEv
  /\ UNCHANGED <<other, live, args, dev, state, cb, ret, conn, readahead,
                 device, clock, poll, h>>

\* The wait ends because the semaphore was posted; the lock is held again
WakeUp(t) ==
  /\ pc[t] = "waiting"
  /\ netlock = 0
  /\ snd_sem[t] > 0
  /\ snd_sem' = [snd_sem EXCEPT ![t] = @ - 1]
  /\ netlock' = t
  /\ pc' = [pc EXCEPT ![t] = "woken"]
  /\ ev' = NoEv
  /\ UNCHANGED <<other, live, args, dev, state, cb, ret, conn, readahead,
                 device, clock, poll, h>>

\* The wait ends because a signal was delivered to the blocked thread; the
\* lock is held again
Signal(t) ==
  /\ pc[t] = "waiting"
  /\ netlock = 0
  /\ snd_sem[t] = 0
  /\ netlock' = t
  /\ pc' = [pc EXCEPT ![t] = "woken"]
  /\ h' = [h EXCEPT ![t].sig = TRUE]
  /\ ev' = NoEv
  /\ UNCHANGED <<other, live, args, dev, state, snd_sem, cb, ret, conn,
                 readahead, device, clock, poll>>

\* Lines 481-497: icmpv6_callback_free, net_unlock, the result translated
Finish(t) ==
  /\ pc[t] = "woken"
  /\ netlock = t
  /\ cb' = [cb EXCEPT ![t] = icmpv6_callback_free(@)]
  /\ netlock' = net_unlock(t)
  /\ Exit(t, state[t].snd_result)
  /\ state' = [state EXCEPT ![t] = NoState]
  /\ snd_sem' = [snd_sem EXCEPT ![t] = 0]
  /\ ev' = NoEv
  /\ UNCHANGED <<other, live, args, dev, conn, readahead, device, clock, poll,
                 h>>

\* The caller takes the returned value and goes on; nothing of the call is
\* left but the connection's session and queue.
Idle(t) ==
  /\ pc[t] = "done"
  /\ pc' = [pc EXCEPT ![t] = "idle"]
  /\ args' = [args EXCEPT ![t] = NoArgs]
  /\ dev' = [dev EXCEPT ![t] = NULL]
  /\ ret' = [ret EXCEPT ![t] = 0]
  /\ h' = [h EXCEPT ![t] = [NoHistory EXCEPT !.lastecho = h[t].lastecho]]
  /\ ev' = NoEv
  /\ UNCHANGED <<other, live, state, snd_sem, cb, conn, readahead, device, clock,
                 netlock, poll>>

\* The environment moves between the calls' steps, not at the instant of a
\* return
Returning == \E t \in Calls : pc[t] = "done"

(***************************************************************************)
(* The environment: the clock, the poll cycles of the devices, the other   *)
(* users of the device buffer, the reception of echo replies               *)
(***************************************************************************)
Tick ==
  /\ netlock = 0
  /\ ~Returning
  /\ clock < MaxTick
  /\ clock' = clock + 1
  /\ ev' = NoEv
  /\ UNCHANGED <<other, live, pc, args, dev, state, snd_sem, cb, ret, conn, readahead,
                 device, netlock, poll, h>>

\* A poll cycle (or the delivery of a device event) starts on a device
PollBegin(d) ==
  /\ netlock = 0
  /\ ~Returning
  /\ netlock' = PollCtx
  /\ poll' = d
  /\ ev' = NoEv
  /\ UNCHANGED <<other, live, pc, args, dev, state, snd_sem, cb, ret, conn, readahead,
                 device, clock, h>>

\* Another handler served by the same poll cycle claims the free buffer
OtherClaim(d) ==
  /\ netlock = PollCtx
  /\ poll = d
  /\ device[d].d_sndlen = 0
  /\ device' = [device EXCEPT ![d] = [NoFrame EXCEPT !.d_len = IPv6_HDRLEN + 1,
                                                      !.d_sndlen = 1]]
  /\ ev' = NoEv
  /\ UNCHANGED <<other, live, pc, args, dev, state, snd_sem, cb, ret, conn, readahead,
                 clock, netlock, poll, h>>

\* The poll cycle ends: the driver takes the pending frame out of the buffer
PollEnd(d) ==
  /\ netlock = PollCtx
  /\ poll = d
  /\ device' = [device EXCEPT ![d] = NoFrame]
  /\ netlock' = 0
  /\ poll' = NULL
  /\ ev' = NoEv
  /\ UNCHANGED <<other, live, pc, args, dev, state, snd_sem, cb, ret, conn, readahead,
                 clock, h>>

\* An echo reply for the tracked (id, device) is queued on the connection
RxReply(c) ==
  /\ netlock = 0
  /\ ~Returning
  /\ conn[c].dev # NULL
  /\ conn[c].nreqs > 0
  /\ Len(readahead[c]) < MaxQueue
  /\ readahead' = [readahead EXCEPT ![c] = Append(@, [id |-> conn[c].id, dev |-> conn[c].dev])]
  /\ ev' = NoEv
  /\ UNCHANGED <<other, live, pc, args, dev, state, snd_sem, cb, ret, conn, device,
                 clock, netlock, poll, h>>

Next ==
  \/ \E t \in Calls, a \in ArgSpace :
       \E d \in netdev_findby_ripv6addr(a.to) : Start(t, a, d)
  \/ \E t \in Calls : flush(t)
  \/ \E t \in Calls, nbok \in BOOLEAN : neighbor(t, nbok)
  \/ \E t \in Calls : net_lock(t)
  \/ \E t \in Calls, allocok \in BOOLEAN : Setup(t, allocok)
  \/ \E t \in Calls : netdev_txnotify_dev(t)
  \/ \E t \in Calls : net_lockedwait(t)
  \/ \E t \in Calls, flags \in SUBSET EventFlags : sendto_eventhandler(t, flags)
  \/ \E t \in Calls : WakeUp(t)
  \/ \E t \in Calls : Signal(t)
  \/ \E t \in Calls : Finish(t)
  \/ \E t \in Calls : errout(t)
  \/ \E t \in Calls : errout_flush(t)
  \/ \E t \in Calls : Idle(t)
  \/ Tick
  \/ \E d \in Devices : PollBegin(d)
  \/ \E d \in Devices : OtherClaim(d)
  \/ \E d \in Devices : PollEnd(d)
  \/ \E c \in Calls : RxReply(c)

Spec == Init /\ [][Next]_vars

(***************************************************************************)
(* Calls with a send timeout under fair scheduling: time passes, every     *)
(* device is polled again and again and its poll cycles end, the poll      *)
(* cycle of a device keeps invoking the handlers registered on it, a       *)
(* thread whose semaphore was posted gets the lock back, and a thread that *)
(* can run does run.  The reception of replies is left out: it changes     *)
(* only the read-ahead queue, which nothing between net_lock() and the     *)
(* return of the wait reads.                                               *)
(***************************************************************************)
LiveArgs ==
  {a \in ValidArgs : a.timeo > 0 /\ a.len = ICMPv6_HDRLEN /\ a.id = 1}

NextLive ==
  \/ \E t \in Calls, a \in LiveArgs :
       \E d \in netdev_findby_ripv6addr(a.to) : Start(t, a, d)
  \/ \E t \in Calls : flush(t)
  \/ \E t \in Calls, nbok \in BOOLEAN : neighbor(t, nbok)
  \/ \E t \in Calls : net_lock(t)
  \/ \E t \in Calls, allocok \in BOOLEAN : Setup(t, allocok)
  \/ \E t \in Calls : netdev_txnotify_dev(t)
  \/ \E t \in Calls : net_lockedwait(t)
  \/ \E t \in Calls, flags \in SUBSET EventFlags : sendto_eventhandler(t, flags)
  \/ \E t \in Calls : WakeUp(t)
  \/ \E t \in Calls : Signal(t)
  \/ \E t \in Calls : Finish(t)
  \/ \E t \in Calls : errout(t)
  \/ \E t \in Calls : errout_flush(t)
  \/ \E t \in Calls : Idle(t)
  \/ Tick
  \/ \E d \in Devices : PollBegin(d)
  \/ \E d \in Devices : OtherClaim(d)
  \/ \E d \in Devices : PollEnd(d)

Fairness ==
  /\ SF_vars(Tick)
  /\ \A d \in Devices : SF_vars(PollBegin(d)) /\ WF_vars(PollEnd(d))
  /\ \A t \in Calls :
       /\ SF_vars(\E flags \in SUBSET EventFlags : sendto_eventhandler(t, flags))
       /\ SF_vars(WakeUp(t))
       /\ WF_vars(Finish(t))
       /\ WF_vars(errout(t))
       /\ WF_vars(errout_flush(t))
       /\ WF_vars(\E allocok \in BOOLEAN : Setup(t, allocok))
       /\ WF_vars(netdev_txnotify_dev(t))
       /\ WF_vars(net_lockedwait(t))

LiveSpec == Init /\ [][NextLive]_vars /\ Fairness

(***************************************************************************)
(* Two threads, each with its own socket, send echo requests through the   *)
(* same device: their callbacks are served by the same poll cycle.  The    *)
(* lengths are the smallest one and the first one that does not fit        *)
(* snd_buflen.  Echo replies are left out: they do not touch the buffer.   *)
(***************************************************************************)
MultiLens == {ICMPv6_HDRLEN, 2^UINT16_BITS}

MultiArgs ==
  [type : {ICMPv6_ECHO_REQUEST}, id : {1}, len : MultiLens,
   tolen : {SOCKADDR_IN6_SIZE}, to : {<<1, 2>>}, timeo : Timeouts,
   chksum : CallerChksums, seqno : CallerSeqnos]

InitMulti == InitWith(Calls) /\ env = NoTraversal /\ ee = NoEE

NextMulti ==
  \/ \E t \in Calls, a \in MultiArgs :
       \E d \in netdev_findby_ripv6addr(a.to) : Start(t, a, d)
  \/ \E t \in Calls : flush(t)
  \/ \E t \in Calls, nbok \in BOOLEAN : neighbor(t, nbok)
  \/ \E t \in Calls : net_lock(t)
  \/ \E t \in Calls, allocok \in BOOLEAN : Setup(t, allocok)
  \/ \E t \in Calls : netdev_txnotify_dev(t)
  \/ \E t \in Calls : net_lockedwait(t)
  \/ \E t \in Calls, flags \in SUBSET EventFlags : sendto_eventhandler(t, flags)
  \/ \E t \in Calls : WakeUp(t)
  \/ \E t \in Calls : Signal(t)
  \/ \E t \in Calls : Finish(t)
  \/ \E t \in Calls : errout(t)
  \/ \E t \in Calls : errout_flush(t)
  \/ \E t \in Calls : Idle(t)
  \/ Tick
  \/ \E d \in Devices : PollBegin(d)
  \/ \E d \in Devices : OtherClaim(d)
  \/ \E d \in Devices : PollEnd(d)

SpecMulti == InitMulti /\ [][NextMulti]_vars

(***************************************************************************)
(* The packet builder on its own: a first call, with any content of the    *)
(* caller's echo header, has reached its wait; the device is polled.       *)
(***************************************************************************)
BuildChksums == {0, 4660, 2^UINT16_BITS - 1}
BuildSeqnos == {0, 1, 32695}

BuildArgs ==
  [type : Types, id : Ids, len : {n \in Lens : n >= ICMPv6_HDRLEN},
   tolen : {SOCKADDR_IN6_SIZE}, to : Dests, timeo : {0},
   chksum : BuildChksums, seqno : BuildSeqnos]

InitBuild ==
  \E a \in BuildArgs : \E d \in netdev_findby_ripv6addr(a.to) \ {NULL} :
    /\ live = {1}
    /\ pc = [t \in Calls |-> IF t = 1 THEN "waiting" ELSE "idle"]
    /\ args = [t \in Calls |-> IF t = 1 THEN a ELSE NoArgs]
    /\ dev = [t \in Calls |-> IF t = 1 THEN d ELSE NULL]
    /\ state = [t \in Calls |->
                  IF t = 1 THEN [InitState(a) EXCEPT !.snd_result = PreSeed]
                           ELSE NoState]
    /\ snd_sem = [t \in Calls |-> 0]
    /\ cb = [t \in Calls |->
               IF t = 1 THEN callback_setup(t) ELSE NoCallback]
    /\ ret = [t \in Calls |-> 0]
    /\ conn = [t \in Calls |->
                 IF t = 1 THEN SessionUpdate(a, d, EmptySession) ELSE EmptySession]
    /\ readahead = [t \in Calls |-> <<>>]
    /\ device = [x \in Devices |-> NoFrame]
    /\ clock = 0
    /\ netlock = 0
    /\ poll = NULL
    /\ h = [t \in Calls |->
              IF t = 1 THEN [NoHistory EXCEPT !.registered = TRUE,
                                              !.notified = TRUE, !.blocked = TRUE,
                                              !.flushes = 1, !.mismatch = TRUE,
                                              !.lastecho =
                                                IF a.type = ICMPv6_ECHO_REQUEST
                                                  THEN a.id ELSE 0]
                       ELSE NoHistory]
    /\ ev = NoEv
    /\ env = NoTraversal
    /\ ee = NoEE

NextBuild ==
  \/ \E d \in Devices : PollBegin(d)
  \/ \E d \in Devices : OtherClaim(d)
  \/ \E t \in Calls, flags \in SUBSET EventFlags : sendto_eventhandler(t, flags)
  \/ \E d \in Devices : PollEnd(d)

SpecBuild == InitBuild /\ [][NextBuild]_vars

(***************************************************************************)
(* env_foreach.  The environment of a task group is the character array    *)
(* tg_envp of tg_envsize bytes: the name=value strings one after the       *)
(* other, each ended by a NUL.  'ptr' is kept as an offset into the array. *)
(***************************************************************************)
NUL == ""
EnvStrings == {<<"a", "=", "1">>, <<"b", "=">>}
\* What a callback may return
CbReturns == {0, 7, -3}

\* The array that holds the strings of 'strings' in order
RECURSIVE envp_of(_)
envp_of(strings) ==
  IF strings = <<>> THEN <<>>
  ELSE Head(strings) \o <<NUL>> \o envp_of(Tail(strings))

Environments ==
  UNION {[1..n -> EnvStrings] : n \in 0..MaxEnv}

RECURSIVE strlen(_, _)
strlen(envp, ptr) ==
  IF envp[ptr + 1] = NUL THEN 0 ELSE 1 + strlen(envp, ptr + 1)

\* The string 'ptr' points to, as the callback reads it
string_at(envp, ptr) == SubSeq(envp, ptr + 1, ptr + strlen(envp, ptr))

\* ptr += (strlen(ptr) + 1)
next_ptr_nonul(envp, ptr) == ptr + strlen(envp, ptr)

next_ptr(envp, ptr) == ptr + strlen(envp, ptr) + 1

\* ret != 0: the callback asks for the end of the traversal
stops(r) == r # 0

\* Lines 80-90: ret = OKK, end and ptr are set
env_foreach(strings) ==
  /\ env.pc = "idle"
  /\ env' = [pc |-> "loop", strings |-> strings, tg_envp |-> envp_of(strings),
             ptr |-> 0, ret |-> OKK, visited |-> <<>>]
  /\ UNCHANGED <<netvars, ee>>

\* Lines 91-105: one pass of the loop, the callback returning r
env_foreach_visit(r) ==
  /\ env.pc = "loop"
  /\ env.ptr < Len(env.tg_envp)
  /\ env' = [env EXCEPT
               !.ret = r,
               !.visited = Append(@, [string |-> string_at(env.tg_envp, env.ptr),
                                      ret |-> r]),
               !.ptr = IF stops(r) THEN @ ELSE next_ptr(env.tg_envp, @),
               !.pc = IF stops(r) THEN "done" ELSE "loop"]
  /\ UNCHANGED <<netvars, ee>>

\* Lines 91 and 107: ptr has reached end, ret is returned
env_foreach_end ==
  /\ env.pc = "loop"
  /\ env.ptr >= Len(env.tg_envp)
  /\ env' = [env EXCEPT !.pc = "done"]
  /\ UNCHANGED <<netvars, ee>>

\* The caller takes the returned value
env_foreach_return ==
  /\ env.pc = "done"
  /\ env' = [NoTraversal EXCEPT !.strings = env.strings,
                                !.tg_envp = env.tg_envp]
  /\ UNCHANGED <<netvars, ee>>

InitEnv ==
  /\ InitWith({})
  /\ env = NoTraversal
  /\ ee = NoEE

NextEnv ==
  \/ \E strings \in Environments : env_foreach(strings)
  \/ \E r \in CbReturns : env_foreach_visit(r)
  \/ env_foreach_end
  \/ env_foreach_return

SpecEnv == InitEnv /\ [][NextEnv]_vars

(***************************************************************************)
(* The EEPROM driver drivers/eeprom/i2c_xx24xx.c: tasks, each with its own *)
(* open file, call open, close, seek, read and write on one device of any  *)
(* of the supported geometries.  Every operation but the early returns of  *)
(* ee24xx_write takes the device semaphore first and gives it when it      *)
(* returns.  A write is tried from positions around the first MaxPages     *)
(* pages and around the end of the device, with lengths from nothing to    *)
(* more than MaxPages pages.  A task makes as many calls as its budget.    *)
(***************************************************************************)
EIO == 5
EACCES == 13
ENODEV == 19
EMFILE == 24
EFBIG == 27
UINT8_BITS == 8
SEEK_SET == 0
SEEK_CUR == 1
SEEK_END == 2
EEPROM_24xx00 == 0
EEPROM_24xx1025 == 11

\* g_ee24xx_devices: bytes, pagesize, addrlen, abits, special
g_ee24xx_devices ==
  << <<0, 1, 1, 0, 1>>, <<0, 0, 1, 0, 0>>, <<1, 0, 1, 0, 0>>, <<2, 1, 1, 1, 0>>,
     <<3, 1, 1, 2, 0>>, <<4, 1, 1, 3, 0>>, <<5, 2, 2, 0, 0>>, <<6, 2, 2, 0, 0>>,
     <<7, 3, 2, 0, 0>>, <<8, 3, 2, 0, 0>>, <<9, 4, 2, 0, 0>>, <<10, 4, 2, 1, 1>>,
     <<10, 4, 2, 1, 0>>, <<11, 5, 2, 2, 0>>,
     <<0, 1, 1, 0, 0>>, <<1, 1, 1, 0, 0>>, <<11, 5, 2, 2, 0>> >>

DevTypes == 0..(Len(g_ee24xx_devices) - 1)

\* ee24xx_initialize: the geometry expanded, or the device refused
ee24xx_initialize(devtype) ==
  LET g == g_ee24xx_devices[devtype + 1]
      special == g[5] # 0
  IN
    IF special /\ devtype = EEPROM_24xx00
      THEN [ret |-> OKK, size |-> 16, pgsize |-> 1]
    ELSE IF special /\ devtype = EEPROM_24xx1025
      THEN [ret |-> -ENODEV, size |-> 128 * 2^g[1], pgsize |-> 8 * 2^g[2]]
    ELSE [ret |-> OKK, size |-> 128 * 2^g[1], pgsize |-> 8 * 2^g[2]]

\* The bitwise and of two naturals
RECURSIVE bitand(_, _)
bitand(a, b) ==
  IF a = 0 \/ b = 0 THEN 0
  ELSE (a % 2) * (b % 2) + 2 * bitand(a \div 2, b \div 2)

\* pageoff = filep->f_pos & (eedev->pgsize - 1)
pageoff_of(f_pos, pgsize) == bitand(f_pos, pgsize - 1)

unaligned_cnt_full(pgsize, pageoff) == pgsize

\* cnt = eedev->pgsize - pageoff
unaligned_cnt(pgsize, pageoff) == pgsize - pageoff

Positions(size, pgsize) ==
  {p \in (0..(MaxPages * pgsize)) \cup ((size - pgsize - 1)..(size + 1)) : p >= 0}

WriteLens(pgsize) ==
  {0, 1, pgsize - 1, pgsize, pgsize + 1} \cup
  {MaxPages * pgsize + k : k \in 0..2}

\* What I2C_TRANSFER returns
I2CResults == {OKK, -EIO}

\* ee24xx_writepage: one I2C write transfer of len bytes at memaddr
ee24xx_writepage(memaddr, len) == [memaddr |-> memaddr, len |-> len]

\* A registered device of type devtype, opened by the tasks 'tasks', each of
\* which is to make 'calls' calls
Registered(devtype, readonly, tasks, calls) ==
  LET g == ee24xx_initialize(devtype) IN
    [NoEE EXCEPT !.size = g.size, !.pgsize = g.pgsize, !.readonly = readonly,
                 !.live = tasks,
                 !.budget = [t \in EETasks |-> IF t \in tasks THEN calls ELSE 0],
                 !.pc = [t \in EETasks |-> IF t \in tasks THEN "idle" ELSE "closed"]]

\* One task with an open file on a registered device makes one write
InitEE ==
  /\ InitWith({})
  /\ env = NoTraversal
  /\ \E devtype \in DevTypes, readonly \in BOOLEAN :
       /\ ee24xx_initialize(devtype).ret = OKK
       /\ \E p \in Positions(ee24xx_initialize(devtype).size,
                             ee24xx_initialize(devtype).pgsize) :
            ee = [Registered(devtype, readonly, {1}, 1) EXCEPT !.f_pos[1] = p]

\* What every call starts with: the budget, and the record of what the call
\* was asked and has transferred
Called(t, name, len) ==
  [ee EXCEPT !.budget[t] = @ - 1, !.op[t] = name, !.pos0[t] = ee.f_pos[t],
             !.reqlen[t] = len, !.len[t] = len, !.xfers[t] = <<>>,
             !.reads[t] = <<>>, !.ret[t] = OKK]

CanCall(t) == t \in ee.live /\ ee.pc[t] = "idle" /\ ee.budget[t] > 0

\* ee24xx_semtake: sem_wait, repeated when a signal interrupts it
ee24xx_semtake_nowait(t) ==
  /\ ee.pc[t] = "semtake"
  /\ ee' = [ee EXCEPT !.sem = @ - 1, !.pc[t] = ee.op[t]]
  /\ UNCHANGED <<netvars, env>>

ee24xx_semtake(t) ==
  /\ ee.pc[t] = "semtake"
  /\ ee.sem > 0
  /\ ee' = [ee EXCEPT !.sem = @ - 1, !.pc[t] = ee.op[t]]
  /\ UNCHANGED <<netvars, env>>

\* ee24xx_semgive and the return of 'ret'
semgive_return(e, t, r) ==
  [e EXCEPT !.sem = @ + 1, !.pc[t] = "done", !.ret[t] = r]

\* The caller has the returned value: of the call only the file position
\* is left
ee24xx_return(t) ==
  /\ ee.pc[t] = "done"
  /\ ee.budget[t] > 0
  /\ ee' = [ee EXCEPT !.pc[t] = "idle", !.op[t] = "none", !.len[t] = 0,
                      !.cnt[t] = 0, !.pageoff[t] = 0, !.offset[t] = 0,
                      !.whence[t] = 0, !.ret[t] = 0, !.savelen[t] = 0,
                      !.pos0[t] = 0, !.reqlen[t] = 0, !.xfers[t] = <<>>,
                      !.reads[t] = <<>>]
  /\ UNCHANGED <<netvars, env>>

\* Lines 640-677: the checks before the semaphore and the clamp of len
clamp(len, f_pos, size) == IF len + f_pos > size THEN size - f_pos ELSE len

ee24xx_write(t, len) ==
  /\ CanCall(t)
  /\ UNCHANGED <<netvars, env>>
  /\ LET e == Called(t, "write", len) IN
       IF ee.readonly
         THEN ee' = [e EXCEPT !.pc[t] = "done", !.ret[t] = -EACCES]
       ELSE IF ee.f_pos[t] >= ee.size
         THEN ee' = [e EXCEPT !.pc[t] = "done", !.ret[t] = -EFBIG]
       ELSE ee' = [e EXCEPT !.len[t] = clamp(len, ee.f_pos[t], ee.size),
                            !.savelen[t] = clamp(len, ee.f_pos[t], ee.size),
                            !.ret[t] = -EACCES,
                            !.pc[t] = "semtake"]

\* Lines 686-694: the length of the first, unaligned, chunk
ee24xx_write_first(t) ==
  /\ ee.pc[t] = "write"
  /\ LET pageoff == pageoff_of(ee.f_pos[t], ee.pgsize)
         cnt == unaligned_cnt(ee.pgsize, pageoff)
     IN ee' = [ee EXCEPT !.pageoff[t] = pageoff,
                         !.cnt[t] = IF cnt > ee.len[t] THEN ee.len[t] ELSE cnt,
                         !.pc[t] = IF pageoff > 0 THEN "unaligned" ELSE "aligned"]
  /\ UNCHANGED <<netvars, env>>

\* One chunk: ee24xx_writepage, ee24xx_waitwritecomplete, then the advance;
\* a failure of either leaves through 'done', where the semaphore is given
advance_always(t, cnt, wr, wc) ==
  LET x == Append(ee.xfers[t], ee24xx_writepage(ee.f_pos[t], cnt))
      e == [ee EXCEPT !.xfers[t] = x, !.cnt[t] = cnt,
                      !.len[t] = @ - cnt, !.f_pos[t] = @ + cnt]
  IN
    IF wr < 0 THEN ee' = semgive_return(e, t, wr)
    ELSE IF wc < 0 THEN ee' = semgive_return(e, t, wc)
    ELSE ee' = [e EXCEPT !.ret[t] = wc, !.pc[t] = "aligned"]

ee24xx_chunk(t, cnt, wr, wc) ==
  LET x == Append(ee.xfers[t], ee24xx_writepage(ee.f_pos[t], cnt))
      e == [ee EXCEPT !.xfers[t] = x, !.cnt[t] = cnt]
  IN
    IF wr < 0 THEN ee' = semgive_return(e, t, wr)
    ELSE IF wc < 0 THEN ee' = semgive_return(e, t, wc)
    ELSE ee' = [e EXCEPT !.ret[t] = wc, !.len[t] = @ - cnt,
                         !.f_pos[t] = @ + cnt, !.pc[t] = "aligned"]

\* Lines 695-717: "First, write some page-unaligned data"
ee24xx_write_unaligned(t, wr, wc) ==
  /\ ee.pc[t] = "unaligned"
  /\ ee24xx_chunk(t, ee.cnt[t], wr, wc)
  /\ UNCHANGED <<netvars, env>>

\* Lines 721-748: "Then, write remaining bytes at page-aligned addresses"
ee24xx_write_aligned(t, wr, wc) ==
  /\ ee.pc[t] = "aligned"
  /\ ee.len[t] > 0
  /\ ee24xx_chunk(t, IF ee.len[t] > ee.pgsize THEN ee.pgsize ELSE ee.len[t],
                  wr, wc)
  /\ UNCHANGED <<netvars, env>>

\* Lines 750-754: nothing is left; the number of bytes written is returned
ee24xx_write_return(t) ==
  /\ ee.pc[t] = "aligned"
  /\ ee.len[t] = 0
  /\ ee' = semgive_return(ee, t, ee.savelen[t])
  /\ UNCHANGED <<netvars, env>>

\* The bytes of the transfers of a sequence, and the sequence without its last
RECURSIVE SumLens(_)
SumLens(x) == IF x = <<>> THEN 0 ELSE x[1].len + SumLens(Tail(x))

Front(x) == SubSeq(x, 1, Len(x) - 1)

NextEE ==
  \/ \E t \in EETasks : \E len \in WriteLens(ee.pgsize) : ee24xx_write(t, len)
  \/ \E t \in EETasks : ee24xx_semtake(t)
  \/ \E t \in EETasks : ee24xx_write_first(t)
  \/ \E t \in EETasks, wr \in I2CResults, wc \in I2CResults :
       ee24xx_write_unaligned(t, wr, wc)
  \/ \E t \in EETasks, wr \in I2CResults, wc \in I2CResults :
       ee24xx_write_aligned(t, wr, wc)
  \/ \E t \in EETasks : ee24xx_write_return(t)

SpecEE == InitEE /\ [][NextEE]_vars

\* Lines 361-384: ee24xx_open.  refs is a uint8_t: refs + 1 is computed as an
\* int, refs += 1 is stored in eight bits.
ee24xx_open(t) ==
  /\ CanCall(t)
  /\ ee' = [Called(t, "open", 0) EXCEPT !.pc[t] = "semtake"]
  /\ UNCHANGED <<netvars, env>>

ee24xx_open_body(t) ==
  /\ ee.pc[t] = "open"
  /\ ee' = IF ee.refs + 1 = 0
             THEN semgive_return(ee, t, -EMFILE)
             ELSE semgive_return([ee EXCEPT !.refs = (@ + 1) % 2^UINT8_BITS,
                                            !.balance = @ + 1], t, OKK)
  /\ UNCHANGED <<netvars, env>>

\* Lines 393-418: ee24xx_close
ee24xx_close(t) ==
  /\ CanCall(t)
  /\ ee' = [Called(t, "close", 0) EXCEPT !.pc[t] = "semtake"]
  /\ UNCHANGED <<netvars, env>>

ee24xx_close_body(t) ==
  /\ ee.pc[t] = "close"
  /\ ee' = IF ee.refs = 0
             THEN semgive_return(ee, t, -EIO)
             ELSE semgive_return([ee EXCEPT !.refs = @ - 1,
                                            !.balance = @ - 1], t, OKK)
  /\ UNCHANGED <<netvars, env>>

\* Lines 427-488: ee24xx_seek
Whences == {SEEK_SET, SEEK_CUR, SEEK_END, SEEK_END + 1}
SeekOffsets == {-1, 0, 1}

ee24xx_seek(t, offset, whence) ==
  /\ CanCall(t)
  /\ ee' = [Called(t, "seek", 0) EXCEPT !.pc[t] = "semtake",
                                        !.offset[t] = offset,
                                        !.whence[t] = whence]
  /\ UNCHANGED <<netvars, env>>

ee24xx_seek_body(t) ==
  /\ ee.pc[t] = "seek"
  /\ LET newpos == CASE ee.whence[t] = SEEK_CUR -> ee.f_pos[t] + ee.offset[t]
                      [] ee.whence[t] = SEEK_SET -> ee.offset[t]
                      [] ee.whence[t] = SEEK_END -> ee.size + ee.offset[t]
                      [] OTHER -> -1
     IN ee' = IF ee.whence[t] \notin {SEEK_CUR, SEEK_SET, SEEK_END}
                THEN semgive_return(ee, t, -EINVAL)
              ELSE IF newpos >= 0
                THEN semgive_return([ee EXCEPT !.f_pos[t] = newpos], t, newpos)
              ELSE semgive_return(ee, t, -EINVAL)
  /\ UNCHANGED <<netvars, env>>

\* eedev->size is a uint32_t, so the sum and the difference of the trim are
\* unsigned 32-bit values.  Such a value is kept here as the integer of
\* -2^31 .. 2^31 - 1 that is congruent to it modulo 2^32: a negative integer
\* stands for a value of 2^31 or more (-1 for 4294967295).  'a > b' between
\* two such values:
unsigned_gt(a, b) == IF (a < 0) = (b < 0) THEN a > b ELSE a < 0

\* Lines 511-514: "trim len if read would go beyond end of device"
read_trim(len, f_pos, size) ==
  IF unsigned_gt(f_pos + len, size) THEN size - f_pos ELSE len

ReadLens == {0, 1, 2}

\* Lines 494-562: ee24xx_read
ee24xx_read(t, len) ==
  /\ CanCall(t)
  /\ ee' = [Called(t, "read", len) EXCEPT !.pc[t] = "semtake"]
  /\ UNCHANGED <<netvars, env>>

ee24xx_read_body(t, r) ==
  /\ ee.pc[t] = "read"
  /\ LET len == read_trim(ee.len[t], ee.f_pos[t], ee.size)
         e == [ee EXCEPT !.len[t] = len]
         x == [e EXCEPT !.reads[t] = Append(@, [memaddr |-> ee.f_pos[t],
                                                len |-> len])]
     IN ee' = IF len = 0 THEN semgive_return(e, t, 0)
              ELSE IF r < 0 THEN semgive_return(x, t, r)
              ELSE semgive_return([x EXCEPT !.f_pos[t] = @ + len], t, len)
  /\ UNCHANGED <<netvars, env>>

\* Opens and closes only, by one task, as many as MaxOpens
InitRefs ==
  /\ InitWith({})
  /\ env = NoTraversal
  /\ ee = Registered(EEPROM_24xx00, FALSE, {1}, MaxOpens)

NextRefs ==
  \/ \E t \in EETasks : ee24xx_open(t)
  \/ \E t \in EETasks : ee24xx_close(t)
  \/ \E t \in EETasks : ee24xx_semtake(t)
  \/ \E t \in EETasks : ee24xx_open_body(t)
  \/ \E t \in EETasks : ee24xx_close_body(t)
  \/ \E t \in EETasks : ee24xx_return(t)

SpecRefs == InitRefs /\ [][NextRefs]_vars

\* One task seeks and reads on a device of any geometry
InitFile ==
  /\ InitWith({})
  /\ env = NoTraversal
  /\ \E devtype \in DevTypes :
       /\ ee24xx_initialize(devtype).ret = OKK
       /\ ee = Registered(devtype, FALSE, {1}, MaxCalls)

NextFile ==
  \/ \E t \in EETasks, offset \in SeekOffsets, whence \in Whences :
       ee24xx_seek(t, offset, whence)
  \/ \E t \in EETasks, len \in ReadLens : ee24xx_read(t, len)
  \/ \E t \in EETasks : ee24xx_semtake(t)
  \/ \E t \in EETasks : ee24xx_seek_body(t)
  \/ \E t \in EETasks, r \in I2CResults : ee24xx_read_body(t, r)
  \/ \E t \in EETasks : ee24xx_return(t)

SpecFile == InitFile /\ [][NextFile]_vars

\* Two tasks, each with its own open file on a device with pages of 8
\* bytes, make MaxCalls calls each of any of the five operations; the
\* arguments are those that take the operations through each of their exits
EEPROM_24xx01 == EEPROM_24xx00 + 1
OpsSeeks == {<<1, SEEK_SET>>, <<-1, SEEK_SET>>, <<0, SEEK_END + 1>>}
OpsReadLens == {0, 1}
OpsWriteLens(pgsize) == {1, pgsize + 1}

InitOps ==
  /\ InitWith({})
  /\ env = NoTraversal
  /\ \E readonly \in BOOLEAN :
       ee = Registered(EEPROM_24xx01, readonly, EETasks, MaxCalls)

NextOps ==
  \/ \E t \in EETasks : ee24xx_open(t)
  \/ \E t \in EETasks : ee24xx_close(t)
  \/ \E t \in EETasks, a \in OpsSeeks : ee24xx_seek(t, a[1], a[2])
  \/ \E t \in EETasks, len \in OpsReadLens : ee24xx_read(t, len)
  \/ \E t \in EETasks : \E len \in OpsWriteLens(ee.pgsize) : ee24xx_write(t, len)
  \/ \E t \in EETasks : ee24xx_semtake(t)
  \/ \E t \in EETasks : ee24xx_open_body(t)
  \/ \E t \in EETasks : ee24xx_close_body(t)
  \/ \E t \in EETasks : ee24xx_seek_body(t)
  \/ \E t \in EETasks, r \in I2CResults : ee24xx_read_body(t, r)
  \/ \E t \in EETasks : ee24xx_write_first(t)
  \/ \E t \in EETasks, wr \in I2CResults, wc \in I2CResults :
       ee24xx_write_unaligned(t, wr, wc)
  \/ \E t \in EETasks, wr \in I2CResults, wc \in I2CResults :
       ee24xx_write_aligned(t, wr, wc)
  \/ \E t \in EETasks : ee24xx_write_return(t)
  \/ \E t \in EETasks : ee24xx_return(t)

SpecOps == InitOps /\ [][NextOps]_vars

\* A task that is inside an operation goes on to its return, and sem_post
\* hands the semaphore to a task that waits for it: a waiting task is not
\* passed over for ever
FairnessOps ==
  \A t \in EETasks :
    /\ SF_vars(ee24xx_semtake(t))
    /\ WF_vars(ee24xx_open_body(t))
    /\ WF_vars(ee24xx_close_body(t))
    /\ WF_vars(ee24xx_seek_body(t))
    /\ WF_vars(\E r \in I2CResults : ee24xx_read_body(t, r))
    /\ WF_vars(ee24xx_write_first(t))
    /\ WF_vars(\E wr \in I2CResults, wc \in I2CResults :
                 ee24xx_write_unaligned(t, wr, wc))
    /\ WF_vars(\E wr \in I2CResults, wc \in I2CResults :
                 ee24xx_write_aligned(t, wr, wc))
    /\ WF_vars(ee24xx_write_return(t))

LiveOps == InitOps /\ [][NextOps]_vars /\ FairnessOps

\* The task is between ee24xx_semtake and ee24xx_semgive
Inside(t) ==
  ee.pc[t] \in {"open", "close", "seek", "read", "write", "unaligned", "aligned"}

(***************************************************************************)
(* Properties                                                              *)
(***************************************************************************)
ValidCall(a) == a.len >= ICMPv6_HDRLEN /\ a.tolen >= SOCKADDR_IN6_SIZE
OnSubnet(t) == args[t].to[1] = d_ipv6addr(dev[t])[1]
Handled == ev.call # 0

\* C1: a call with valid lengths and a routed device returns len or a
\* negative code: never zero, never another positive value.
C1_ReturnsLenOrNegative ==
  \A t \in Calls :
    pc[t] = "done" /\ ValidCall(args[t]) /\ dev[t] # NULL =>
      /\ ret[t] # 0
      /\ ret[t] > 0 => ret[t] = args[t].len

C1_Witness ==
  \E t \in Calls :
    /\ pc[t] = "done" /\ dev[t] # NULL /\ h[t].path = "send"
    /\ ret[t] = args[t].len /\ ret[t] # snd_buflen_of(args[t].len)

\* C2 as stated: a call that registered its callback has posted snd_sem
\* exactly once when it returns.
C2_PostedExactlyOnce ==
  \A t \in Calls :
    pc[t] = "done" /\ h[t].registered => h[t].posts = 1

\* C2 as amended: snd_sem is posted at most once during a call, by the
\* handler invocation that sets the terminal result and by nothing else; a
\* call that registered its callback and returns without a post is one whose
\* wait was ended by a signal.
C2_PostedAtMostOnce ==
  \A t \in Calls :
    /\ h[t].posts <= 1
    /\ h[t].posts = 1 <=> h[t].path # "none"
    /\ pc[t] \in {"waiting", "woken"} => snd_sem[t] <= h[t].posts
    /\ pc[t] = "done" /\ h[t].registered /\ ~h[t].sig => h[t].posts = 1
    /\ Handled /\ ev.call = t /\ ev.rule = "wait" /\ pc[t] = "waiting" =>
         h[t].posts = 0 /\ snd_sem[t] = 0

C2_Witness ==
  \E t \in Calls :
    pc[t] = "done" /\ h[t].registered /\ h[t].posts = 1 /\ h[t].path = "timeout"

\* C3 as stated: whenever the call returns a negative value, the session is
\* empty and the read-ahead queue is empty.
C3_FailureEmptiesSession ==
  \A t \in Calls :
    pc[t] = "done" /\ ret[t] < 0 =>
      conn[t] = EmptySession /\ readahead[t] = <<>>

\* C3 as amended: whenever a call that passed the argument check (len and
\* tolen large enough) returns a negative value, the session is empty and the
\* read-ahead queue is empty.
C3_CheckedFailureEmptiesSession ==
  \A t \in Calls :
    pc[t] = "done" /\ ret[t] < 0 /\ ValidCall(args[t]) =>
      conn[t] = EmptySession /\ readahead[t] = <<>>

C3_Witness ==
  \E t \in Calls :
    /\ pc[t] = "done" /\ ret[t] < 0 /\ h[t].registered
    /\ h[t].dropped > 0 /\ conn[t] = EmptySession /\ readahead[t] = <<>>

\* C4: a call whose wait was ended by a signal, and for which no handler
\* invocation set a result, returns -EINTR.
C4_SignalReturnsEINTR ==
  \A t \in Calls :
    pc[t] = "done" /\ h[t].sig /\ h[t].path = "none" => ret[t] = -EINTR

C4_Witness ==
  \E t \in Calls :
    pc[t] = "done" /\ h[t].sig /\ h[t].path = "none" /\ ret[t] = -EINTR

\* C5: a handler invocation with NETDEV_DOWN in its flags sets the result
\* -ENETUNREACH and leaves the device's d_len and d_sndlen as they were,
\* whatever the buffer's state and the elapsed time.
C5_DownResolvesUnreachable ==
  Handled /\ NETDEV_DOWN \in ev.flags =>
    /\ ev.rule = "down"
    /\ state[ev.call].snd_result = -ENETUNREACH
    /\ h[ev.call].path = "down"
    /\ device[dev[ev.call]] = ev.before

C5_Witness ==
  /\ Handled /\ NETDEV_DOWN \in ev.flags /\ ICMPv6_NEWDATA \notin ev.flags
  /\ ev.before.d_sndlen = 0
  /\ args[ev.call].timeo > 0 /\ ev.elapsed >= args[ev.call].timeo
  /\ state[ev.call].snd_result = -ENETUNREACH

\* C6: a call resolved through the timeout path gets -ETIMEDOUT when the
\* destination is on the device's subnet and -ENETUNREACH when it is not, and
\* icmpv6_sendto returns that code.
C6_TimeoutClassified ==
  \A t \in Calls :
    LET code == IF OnSubnet(t) THEN -ETIMEDOUT ELSE -ENETUNREACH IN
      /\ h[t].path = "timeout" /\ pc[t] \in {"waiting", "woken"} =>
           state[t].snd_result = code
      /\ h[t].path = "timeout" /\ pc[t] = "done" => ret[t] = code

C6_Witness ==
  \E t \in Calls :
    /\ pc[t] = "done" /\ h[t].path = "timeout"
    /\ ~OnSubnet(t) /\ ret[t] = -ENETUNREACH

\* C7: with a timeout T > 0, a handler invocation without NETDEV_DOWN that
\* cannot send (buffer busy or incoming data) resolves through the timeout
\* path exactly when the ticks elapsed since snd_time are >= T.
C7_TimeoutBoundary ==
  /\ Handled /\ ev.rule = "timeout" =>
       args[ev.call].timeo > 0 /\ ev.elapsed >= args[ev.call].timeo
  /\ /\ Handled /\ args[ev.call].timeo > 0
     /\ NETDEV_DOWN \notin ev.flags
     /\ ev.before.d_sndlen > 0 \/ ICMPv6_NEWDATA \in ev.flags
     /\ ev.elapsed >= args[ev.call].timeo
     => /\ ev.rule = "timeout"
        /\ state[ev.call].snd_result \in {-ETIMEDOUT, -ENETUNREACH}

C7_Witness ==
  /\ Handled /\ ev.rule = "timeout"
  /\ ev.before.d_sndlen > 0
  /\ ev.elapsed = args[ev.call].timeo
  /\ state[ev.call].snd_time > 0

\* C8: with s_sndtimeo = 0 no handler invocation takes the timeout path; the
\* handler resolves the call only by building the packet or on NETDEV_DOWN.
C8_DisabledTimeoutNeverFires ==
  \A t \in Calls :
    args[t].timeo = 0 =>
      /\ h[t].path \in {"none", "send", "down"}
      /\ Handled /\ ev.call = t => ev.rule # "timeout"
      /\ h[t].path # "none" /\ pc[t] \in {"waiting", "woken"} =>
           state[t].snd_result \in {OKK, -ENETUNREACH}

C8_Witness ==
  /\ Handled /\ args[ev.call].timeo = 0
  /\ ev.rule = "wait" /\ ev.before.d_sndlen > 0
  /\ ev.elapsed >= MaxTimeo

\* C9: after a successful call for an echo request with identifier i routed
\* to device d, the session has id = i, nreqs = 1 and dev = d, and the value
\* returned is len.
C9_SuccessRecordsSession ==
  \A t \in Calls :
    pc[t] = "done" /\ ret[t] >= 0 /\ args[t].type = ICMPv6_ECHO_REQUEST =>
      /\ conn[t] = [id |-> args[t].id, nreqs |-> 1, dev |-> dev[t]]
      /\ dev[t] # NULL
      /\ ret[t] = args[t].len

C9_Witness ==
  \E t \in Calls :
    /\ pc[t] = "done" /\ ret[t] = args[t].len
    /\ args[t].type = ICMPv6_ECHO_REQUEST /\ h[t].matched
    /\ conn[t].nreqs = 1

\* C10 as stated: a call for an echo request with the stored identifier and
\* device discards no queued reply, whatever its outcome.
C10_MatchedCallKeepsQueue ==
  \A t \in Calls :
    pc[t] = "done" /\ h[t].matched => h[t].dropped = 0

\* C10 as amended: a call for an echo request with the stored identifier and
\* device discards no queued reply before it returns, and none at all when it
\* returns success; when it fails, errout flushes the queue.
C10_MatchedSuccessKeepsQueue ==
  \A t \in Calls :
    /\ h[t].matched /\ (pc[t] # "done" \/ ret[t] >= 0) =>
         /\ h[t].dropped = 0
         /\ h[t].flushes = 0
         /\ Len(readahead[t]) >= h[t].queued
    /\ h[t].matched /\ pc[t] = "done" /\ ret[t] < 0 =>
         h[t].flushes = 1 /\ readahead[t] = <<>>

C10_Witness ==
  \E t \in Calls :
    /\ pc[t] = "done" /\ h[t].matched /\ ret[t] = args[t].len
    /\ h[t].queued > 0 /\ Len(readahead[t]) = h[t].queued

\* C11: every reply in a connection's read-ahead queue belongs to the (id,
\* device) pair the session stores, in every reachable state.
C11_QueueBelongsToSession ==
  \A c \in Calls :
    \A i \in 1..Len(readahead[c]) :
      readahead[c][i] = [id |-> conn[c].id, dev |-> conn[c].dev]

\* C12: every step of icmpv6_sendto that writes the session, the read-ahead
\* queue or the callback is taken while the calling thread holds the network
\* lock.
C12_StackAccessUnderLock ==
  [][\A t \in Calls :
       /\ pc'[t] # pc[t]
       /\ conn'[t] # conn[t] \/ readahead'[t] # readahead[t] \/ cb'[t] # cb[t]
       => netlock = t]_vars

\* C13: a call that finds no device or whose neighbor resolution fails
\* returns -ENETUNREACH, one whose callback allocation fails returns -ENOMEM,
\* and none of the three notifies the device, blocks on the semaphore or
\* leaves a callback registered.
C13_EarlyFailures ==
  \A t \in Calls :
    /\ h[t].fail \in {"nodev", "neighbor"} => ret[t] = -ENETUNREACH
    /\ h[t].fail = "alloc" => ret[t] = -ENOMEM
    /\ h[t].fail \in {"nodev", "neighbor", "alloc"} =>
         /\ pc[t] \in {"errout", "errout_flush", "done"}
         /\ ~h[t].notified /\ ~h[t].blocked /\ ~h[t].registered
         /\ h[t].posts = 0
         /\ cb[t] = NoCallback

C13_Witness ==
  \E t \in Calls :
    pc[t] = "done" /\ h[t].fail = "alloc" /\ ret[t] = -ENOMEM /\ cb[t] = NoCallback

\* C14: a call with len < ICMPv6_HDRLEN or tolen < sizeof(struct sockaddr_in6)
\* returns -EINVAL in its first step, with no device looked up, the lock, the
\* callbacks, the sessions and the read-ahead queues as they were.
C14_InvalidArgsChangeNothing ==
  [][\A t \in Calls :
       pc[t] = "idle" /\ pc'[t] # "idle" /\ ~ValidCall(args'[t]) =>
         /\ pc'[t] = "done"
         /\ ret'[t] = -EINVAL
         /\ dev'[t] = NULL
         /\ netlock' = netlock
         /\ cb' = cb
         /\ conn' = conn
         /\ readahead' = readahead
         /\ ~h'[t].registered]_vars

C14_Witness ==
  \E t \in Calls :
    /\ pc[t] = "done" /\ args[t].tolen < SOCKADDR_IN6_SIZE
    /\ args[t].len >= ICMPv6_HDRLEN /\ ret[t] = -EINVAL
    /\ conn[t].nreqs = 1 /\ readahead[t] # <<>>

\* C15: when the packet of a call is built, the IPv6 length field is len,
\* d_len is IPv6_HDRLEN + len, d_sndlen has grown by len, and a successful
\* call returns the number of bytes that were copied into the frame.
C15_FrameCarriesLen ==
  /\ Handled /\ ev.rule = "send" =>
       LET frame == device[dev[ev.call]]
           len == args[ev.call].len
       IN /\ frame.d_buf.len[1] * 256 + frame.d_buf.len[2] = len
          /\ frame.d_len = IPv6_HDRLEN + len
          /\ frame.d_sndlen = ev.before.d_sndlen + len
  /\ \A t \in Calls :
       pc[t] = "done" /\ ret[t] >= 0 => h[t].copied = ret[t]

\* C16: the checksum field of a built packet is the complement of the
\* ones'-complement sum over the pseudo-header and the ICMPv6 message with a
\* zero checksum field, 0xffff in place of a zero complement; it is never
\* zero, does not depend on the checksum the caller supplied, and makes the
\* ones'-complement sum over the finished packet all ones.
C16_ChecksumLaw ==
  Handled /\ ev.rule = "send" =>
    LET pkt == device[dev[ev.call]].d_buf
        a == args[ev.call]
        src == d_ipv6addr(dev[ev.call])
        sum == sum1c(<<snd_buflen_of(a.len), IP_PROTO_ICMP6, src[1], src[2],
                       a.to[1], a.to[2], a.type * 256, a.id, a.seqno>>)
    IN /\ pkt.icmpv6.chksum \in 1..WordMask
       /\ pkt.icmpv6.chksum = IF sum = WordMask THEN WordMask ELSE WordMask - sum
       /\ sum1c(chksum_words(pkt)) = WordMask
       /\ pkt.icmpv6 = [type |-> a.type, chksum |-> pkt.icmpv6.chksum,
                        id |-> a.id, seqno |-> a.seqno]

C16_Witness ==
  /\ Handled /\ ev.rule = "send"
  /\ args[ev.call].chksum = 4660
  /\ device[dev[ev.call]].d_buf.icmpv6.chksum = WordMask

\* C18: a thread that is not between net_lock() and its return from the
\* wait's critical section neither holds the network lock nor has a callback
\* registered, whatever the exit path; the handler is invoked only for a call
\* that is blocked in its wait.
C18_NothingLeftOnReturn ==
  /\ \A t \in Calls :
       pc[t] \notin {"locked", "registered", "notified", "waiting", "woken"} =>
         netlock # t /\ cb[t] = NoCallback
  /\ Handled => pc[ev.call] = "waiting"

C18_Witness ==
  \E t \in Calls :
    /\ pc[t] = "done" /\ h[t].registered /\ h[t].path = "down"
    /\ cb[t] = NoCallback /\ netlock = 0

\* C20: once the handler has set a terminal result, the callback's flags,
\* priv and event are cleared; the handler is not invoked again for that
\* call, snd_result is not written again, and the call's terminal transition
\* is the only one.
C20_OneTerminalTransition ==
  /\ [](\A t \in Calls :
          pc[t] \in {"waiting", "woken"} /\ h[t].path # "none" =>
            cb[t] = [alloc |-> TRUE, flags |-> {}, priv |-> NULL, event |-> FALSE])
  /\ [][\A t \in Calls :
          /\ ev'.call = t => h[t].path = "none" /\ pc[t] = "waiting"
          /\ h[t].path # "none" /\ pc'[t] \in {"waiting", "woken"} =>
                /\ state'[t].snd_result = state[t].snd_result
                /\ h'[t].path = h[t].path
                /\ h'[t].posts = h[t].posts]_vars

C20_Witness ==
  \E t \in Calls :
    /\ pc[t] = "waiting" /\ h[t].path = "send" /\ netlock = PollCtx
    /\ poll = dev[t] /\ cb[t].alloc /\ cb[t].flags = {}

\* C17: under fair scheduling a call with a send timeout T > 0 that is
\* blocked in its wait eventually returns, whether or not the transmit buffer
\* ever becomes free (the model's clock stops at MaxTick, so the call is one
\* whose timeout falls within it); and a poll that finds the buffer free with
\* no incoming data resolves the call with success in that invocation.
C17_TimeoutCallReturns ==
  /\ [](Handled /\ NETDEV_DOWN \notin ev.flags /\ ICMPv6_NEWDATA \notin ev.flags
           /\ ev.before.d_sndlen <= 0 =>
             /\ ev.rule = "send"
             /\ state[ev.call].snd_result = OKK
             /\ cb[ev.call].event = FALSE /\ snd_sem[ev.call] = 1)
  /\ \A t \in Calls :
       (/\ pc[t] = "waiting" /\ args[t].timeo > 0
        /\ state[t].snd_time + args[t].timeo <= MaxTick) ~> (pc[t] = "done")

C17_Witness ==
  \E t \in Calls :
    /\ pc[t] = "done" /\ h[t].path = "timeout" /\ args[t].timeo = MaxTimeo
    /\ OnSubnet(t) /\ ret[t] = -ETIMEDOUT /\ ~h[t].sig

\* C19: env_foreach passes the strings of the environment to the callback
\* once each, in storage order from the first; it stops at the first
\* invocation that returns a non-zero value and returns that value; it
\* returns 0 when every string was visited, also for an empty environment.
C19_VisitsInOrderUntilStopped ==
  LET n == Len(env.visited) IN
    /\ n <= Len(env.strings)
    /\ \A i \in 1..n : env.visited[i].string = env.strings[i]
    /\ \A i \in 1..(n - 1) : env.visited[i].ret = 0
    /\ env.pc = "loop" => \A i \in 1..n : env.visited[i].ret = 0
    /\ env.pc = "done" =>
         /\ env.ret # 0 => n > 0 /\ env.visited[n].ret = env.ret
         /\ env.ret = 0 =>
              n = Len(env.strings) /\ \A i \in 1..n : env.visited[i].ret = 0

C19_Witness ==
  /\ env.pc = "done" /\ env.ret = 7
  /\ Len(env.visited) = 2 /\ Len(env.strings) = 3
  /\ env.strings[1] # env.strings[2]

\* C21: a handler invocation without NETDEV_DOWN that finds d_sndlen = 0 and
\* no ICMPv6_NEWDATA in its flags builds the packet and stores success, also
\* when the send timeout has already elapsed; an invocation resolves by
\* timeout only if the buffer is busy or incoming data is flagged.
C21_FreeBufferSendsDespiteTimeout ==
  /\ /\ Handled /\ NETDEV_DOWN \notin ev.flags
     /\ ev.before.d_sndlen = 0 /\ ICMPv6_NEWDATA \notin ev.flags
     => /\ ev.rule = "send"
        /\ state[ev.call].snd_result = OKK
        /\ snd_sem[ev.call] = 1
        /\ device[dev[ev.call]].d_buf # NoPacket
        /\ device[dev[ev.call]].d_buf.destipaddr = args[ev.call].to
        /\ device[dev[ev.call]].d_len =
             IPv6_HDRLEN + snd_buflen_of(args[ev.call].len)
  /\ Handled /\ ev.rule = "timeout" =>
       ev.before.d_sndlen > 0 \/ ICMPv6_NEWDATA \in ev.flags

C21_Witness ==
  /\ Handled /\ ev.rule = "send"
  /\ args[ev.call].timeo > 0
  /\ ev.elapsed > args[ev.call].timeo
  /\ state[ev.call].snd_result = OKK

\* C22: a handler invocation in which no rule applies (no NETDEV_DOWN; the
\* buffer busy or ICMPv6_NEWDATA set; the timeout disabled or not yet elapsed)
\* changes nothing: snd_result and the rest of the call's state, the
\* callback's flags, priv and event, the semaphore count and the device's
\* buffer, d_len and d_sndlen are unchanged, and the flags returned are the
\* flags passed in.
C22_NoRuleChangesNothing ==
  [][/\ ev'.call # 0
     /\ NETDEV_DOWN \notin ev'.flags
     /\ device[dev[ev'.call]].d_sndlen > 0 \/ ICMPv6_NEWDATA \in ev'.flags
     /\ \/ args[ev'.call].timeo = 0
        \/ clock - state[ev'.call].snd_time < args[ev'.call].timeo
     => /\ ev'.rule = "wait"
        /\ state' = state
        /\ cb' = cb
        /\ snd_sem' = snd_sem
        /\ device' = device
        /\ ev'.retflags = ev'.flags]_vars

C22_Witness ==
  /\ Handled /\ ev.rule = "wait"
  /\ ICMPv6_POLL \in ev.flags
  /\ ev.before.d_sndlen > 0
  /\ args[ev.call].timeo > 0
  /\ ev.elapsed < args[ev.call].timeo
  /\ device[dev[ev.call]] = ev.before

\* C23: with two or more calls waiting on the same device a handler builds
\* its packet only when d_sndlen is 0, and it never builds over a frame that
\* another handler has built and the driver has not yet consumed, whatever
\* the payload length.
C23_PendingFrameNeverOverwritten ==
  Handled /\ ev.rule = "send" =>
    /\ ev.before.d_sndlen = 0
    /\ ev.before.d_buf = NoPacket

\* C24: when netdev_txnotify_dev has been called the callback is fully
\* registered (flags, priv, event) and the session's device, and for an echo
\* request its id, are recorded; the notification comes before the caller
\* blocks; registration and notification happen with the network lock held.
\* So a poll cycle finds the handler of every unresolved waiter registered,
\* and no handler runs, and no wake is posted, before the caller has blocked.
C24_RegisteredBeforeNotifiedBeforeBlocked ==
  \A t \in Calls :
    /\ pc[t] \in {"registered", "notified"} => netlock = t
    /\ pc[t] = "notified" =>
         /\ cb[t].alloc
         /\ cb[t].flags = {ICMPv6_POLL, NETDEV_DOWN}
         /\ cb[t].priv = t
         /\ cb[t].event
         /\ conn[t].dev = dev[t]
         /\ args[t].type = ICMPv6_ECHO_REQUEST =>
              conn[t].id = args[t].id /\ conn[t].nreqs = 1
         /\ state[t].snd_result = -EINTR
         /\ ~h[t].blocked
    /\ h[t].notified => h[t].registered
    /\ h[t].blocked => h[t].notified
    /\ h[t].posts > 0 \/ snd_sem[t] > 0 => h[t].blocked
    /\ Handled /\ ev.call = t => h[t].blocked
    /\ netlock = PollCtx /\ pc[t] = "waiting" /\ h[t].posts = 0 =>
         cb[t].event /\ cb[t].priv = t /\ cb[t].flags = {ICMPv6_POLL, NETDEV_DOWN}

C24_Witness ==
  \E t \in Calls :
    /\ pc[t] = "waiting" /\ h[t].notified /\ h[t].posts = 0
    /\ netlock = PollCtx /\ poll = dev[t]
    /\ args[t].type = ICMPv6_ECHO_REQUEST
    /\ conn[t].id = args[t].id
    /\ cb[t].event

\* C25 as stated: a call whose request is not an echo request, or differs
\* from the session in id or device, flushes the read-ahead queue exactly
\* once during the call.
C25_MismatchFlushesExactlyOnce ==
  \A t \in Calls :
    pc[t] = "done" /\ h[t].mismatch => h[t].flushes = 1

\* C25 as amended: such a call, once past the argument check and the device
\* lookup, resets the session to (0, 0, NULL) and then empties the queue
\* before any new id or device is recorded; that is the only flush of a call
\* that returns success, and a call that fails flushes a second time at
\* errout.
C25_MismatchFlushesOnceBeforeRecording ==
  \A t \in Calls :
    h[t].mismatch =>
      /\ pc[t] = "flush" => conn[t] = EmptySession /\ h[t].flushes = 0
      /\ pc[t] \in {"neighbor", "lock", "locked"} =>
           /\ conn[t] = EmptySession
           /\ readahead[t] = <<>>
           /\ h[t].flushes = 1
           /\ h[t].dropped = h[t].queued
      /\ h[t].registered => h[t].flushes >= 1
      /\ pc[t] = "done" /\ ret[t] >= 0 => h[t].flushes = 1
      /\ pc[t] = "done" /\ ret[t] < 0 => h[t].flushes = 2

C25_Witness ==
  \E t \in Calls :
    /\ pc[t] = "done" /\ h[t].mismatch /\ ret[t] = args[t].len
    /\ h[t].queued > 0 /\ h[t].dropped = h[t].queued /\ h[t].flushes = 1
    /\ args[t].type = ICMPv6_ECHO_REQUEST
    /\ conn[t].id = args[t].id

\* C26: the session's request count is 0 or 1 in every state; it is 1 only
\* while the session has a device and its id is the identifier of the most
\* recent echo request that passed the argument check; an echo request that
\* repeats the stored identifier sets the count to 1 again and does not add
\* to it.
C26_CountIsZeroOrOne ==
  \A t \in Calls :
    /\ conn[t].nreqs \in {0, 1}
    /\ conn[t].nreqs = 1 =>
         /\ conn[t].dev # NULL
         /\ pc[t] \in {"idle", "done"} => conn[t].id = h[t].lastecho
    /\ pc[t] = "done" /\ ValidCall(args[t]) /\ conn[t].nreqs = 1 =>
         /\ args[t].type = ICMPv6_ECHO_REQUEST
         /\ conn[t].id = args[t].id
         /\ conn[t].dev = dev[t]
         /\ ret[t] = args[t].len

C26_Witness ==
  \E t \in Calls :
    /\ pc[t] = "done" /\ h[t].matched /\ h[t].flushes = 0
    /\ ret[t] = args[t].len
    /\ conn[t].nreqs = 1 /\ conn[t].id = args[t].id

\* C27: after a successful return for a request that is not an echo request
\* the session has id 0 and nreqs 0, and its device is the routed device:
\* the device is recorded whatever the kind of the request, the identifier
\* for echo requests only.
C27_NonEchoRecordsDeviceOnly ==
  \A t \in Calls :
    /\ pc[t] = "done" /\ ret[t] >= 0 /\ args[t].type # ICMPv6_ECHO_REQUEST =>
         /\ conn[t].id = 0
         /\ conn[t].nreqs = 0
         /\ conn[t].dev = dev[t]
         /\ dev[t] # NULL
    /\ pc[t] = "done" /\ ret[t] >= 0 /\ args[t].type = ICMPv6_ECHO_REQUEST =>
         conn[t].id = args[t].id /\ conn[t].dev = dev[t]

C27_Witness ==
  \E t \in Calls :
    /\ pc[t] = "done" /\ ret[t] = args[t].len
    /\ args[t].type # ICMPv6_ECHO_REQUEST
    /\ args[t].id # 0
    /\ h[t].queued > 0
    /\ conn[t] = [id |-> 0, nreqs |-> 0, dev |-> dev[t]]

\* C28: icmpv6_sendto returns len if and only if sendto_request ran exactly
\* once for the call; a call that returns a negative code, -EINTR after a
\* signal included, wrote nothing to the device's transmit buffer; no call
\* builds more than one packet.
C28_ReturnsLenIffBuiltOnce ==
  \A t \in Calls :
    /\ h[t].built \in {0, 1}
    /\ pc[t] = "done" =>
         /\ ret[t] = args[t].len <=> h[t].built = 1
         /\ ret[t] < 0 => h[t].built = 0 /\ h[t].copied = 0 /\ h[t].path # "send"
         /\ h[t].built = 1 => h[t].path = "send"

C28_Witness ==
  \E t \in Calls :
    /\ pc[t] = "done" /\ h[t].sig /\ ret[t] = -EINTR /\ h[t].built = 0
    /\ h[t].blocked

\* C29: the send timeout is evaluated only inside handler invocations.  A
\* blocked call leaves its wait only when its handler has posted the
\* semaphore or when a signal is delivered; the semaphore is posted and
\* snd_result is changed during the wait only by a handler invocation; the
\* passing of time changes nothing of the call.  So a call to whose handler no
\* event is delivered stays blocked however far the clock is past the
\* timeout, until a signal ends the wait.
C29_TimeoutOnlyInHandler ==
  /\ [](\A t \in Calls :
          pc[t] = "waiting" /\ h[t].posts = 0 =>
            snd_sem[t] = 0 /\ state[t].snd_result = -EINTR)
  /\ [][\A t \in Calls :
          /\ pc[t] = "waiting" /\ pc'[t] # "waiting" =>
               /\ pc'[t] = "woken"
               /\ snd_sem[t] > 0 \/ (h'[t].sig /\ ~h[t].sig)
               /\ snd_sem[t] > 0 => h[t].posts > 0
          /\ pc[t] = "waiting" /\ (snd_sem'[t] > snd_sem[t]
                                     \/ state'[t] # state[t]) =>
               ev'.call = t
          /\ clock' # clock => pc' = pc /\ state' = state /\ snd_sem' = snd_sem
                                /\ cb' = cb /\ ret' = ret]_vars

C29_Witness ==
  \E t \in Calls :
    /\ pc[t] = "waiting" /\ h[t].posts = 0
    /\ args[t].timeo > 0
    /\ clock - state[t].snd_time > args[t].timeo
    /\ ~Handled

\* C30: every I2C write transfer that ee24xx_write issues stays within one
\* EEPROM page: for its start address a and count c > 0, a / pgsize =
\* (a + c - 1) / pgsize, whatever the starting file position, the length and
\* the page size of the device.
C30_TransfersStayInOnePage ==
  \A t \in EETasks :
    \A i \in 1..Len(ee.xfers[t]) :
      LET a == ee.xfers[t][i].memaddr
          c == ee.xfers[t][i].len
      IN c > 0 =>
           /\ a \div ee.pgsize = (a + c - 1) \div ee.pgsize
           /\ a + c <= ee.size

C30_Witness ==
  \E t \in EETasks :
    /\ ee.pc[t] = "done" /\ ee.ret[t] = ee.savelen[t]
    /\ ee.pgsize > 1
    /\ Len(ee.xfers[t]) = MaxPages + 2
    /\ ee.xfers[t][1].memaddr % ee.pgsize = ee.pgsize - 1
    /\ ee.xfers[t][1].len = 1
    /\ ee.xfers[t][2].len = ee.pgsize
    /\ ee.xfers[t][MaxPages + 2].len = 1

\* C34: a fully successful ee24xx_write on a writable device with f_pos <
\* size returns the requested length clamped to size - f_pos and advances
\* f_pos by that amount; its chunks are contiguous, ascending, start at the
\* initial f_pos and their lengths sum to the clamped length.  When a
\* transfer fails part-way the call returns the negative error and f_pos has
\* advanced by the bytes of the chunks completed before it.
C34_WriteReturnsClampedLength ==
  \A t \in EETasks :
    ee.op[t] = "write" /\ ee.pc[t] = "done" /\ ~ee.readonly
    /\ ee.pos0[t] < ee.size =>
      LET x == ee.xfers[t]
          want == IF ee.reqlen[t] + ee.pos0[t] > ee.size
                    THEN ee.size - ee.pos0[t] ELSE ee.reqlen[t]
      IN
        /\ \A i \in 1..Len(x) :
             x[i].memaddr = ee.pos0[t] + SumLens(SubSeq(x, 1, i - 1))
        /\ ee.ret[t] >= 0 =>
             /\ ee.ret[t] = want
             /\ ee.f_pos[t] = ee.pos0[t] + want
             /\ SumLens(x) = want
        /\ ee.ret[t] < 0 =>
             /\ ee.ret[t] = -EIO
             /\ x # <<>>
             /\ ee.f_pos[t] = ee.pos0[t] + SumLens(Front(x))
             /\ SumLens(x) <= want

C34_Witness ==
  \E t \in EETasks :
    /\ ee.op[t] = "write" /\ ee.pc[t] = "done"
    /\ ee.reqlen[t] + ee.pos0[t] > ee.size
    /\ ee.ret[t] = ee.size - ee.pos0[t]
    /\ ee.ret[t] < ee.reqlen[t]
    /\ Len(ee.xfers[t]) >= 2
    /\ ee.pos0[t] % ee.pgsize # 0
    /\ ee.f_pos[t] = ee.size

\* C31: ee24xx_read never asks the device for bytes beyond its end: at every
\* file position that ee24xx_seek can set and for every len, the read
\* transfer satisfies f_pos + length <= size, and a read at or past the end
\* of the device returns 0 without a transfer.
C31_ReadStaysInsideDevice ==
  \A t \in EETasks :
    /\ \A i \in 1..Len(ee.reads[t]) :
         /\ ee.reads[t][i].len > 0
         /\ ee.reads[t][i].memaddr + ee.reads[t][i].len <= ee.size
    /\ ee.op[t] = "read" /\ ee.pc[t] = "done" /\ ee.pos0[t] >= ee.size =>
         ee.ret[t] = 0 /\ ee.reads[t] = <<>>

\* C32: the open reference count never wraps: after any sequence of opens
\* and closes refs is the number of opens that returned OK less the number of
\* closes that returned OK; an open that finds refs at 255 returns -EMFILE
\* and a close that finds refs at 0 returns -EIO, neither changing refs.
C32_RefsCountsOpens ==
  /\ ee.refs = ee.balance
  /\ \A t \in EETasks :
       /\ ee.op[t] = "open" /\ ee.pc[t] = "done" /\ ee.ret[t] = OKK => ee.refs > 0
       /\ ee.op[t] = "close" /\ ee.pc[t] = "done" /\ ee.ret[t] # OKK =>
            ee.ret[t] = -EIO /\ ee.refs = 0

\* C33: at most one task at a time is between the take and the give of the
\* device semaphore; the reference count, a file position and the I2C
\* transfers change only in a step of the task that holds it; every exit of
\* every operation gives it back, so that its count is 1 whenever no task is
\* inside; and a task that waits for it gets to its return.
C33_OneTaskInsideAtATime ==
  /\ [](/\ Cardinality({t \in EETasks : Inside(t)}) <= 1
        /\ ee.sem = 1 - Cardinality({t \in EETasks : Inside(t)}))
  /\ [][\A t \in EETasks :
          \/ ee'.f_pos[t] # ee.f_pos[t]
          \/ Len(ee'.xfers[t]) > Len(ee.xfers[t])
          \/ Len(ee'.reads[t]) > Len(ee.reads[t])
          \/ ee'.refs # ee.refs /\ ee'.pc[t] # ee.pc[t]
          => Inside(t) /\ ee.sem = 0]_vars
  /\ \A t \in EETasks : (ee.pc[t] = "semtake") ~> (ee.pc[t] = "done")

C33_Witness ==
  \E t, u \in EETasks :
    /\ ee.pc[t] = "aligned" /\ Len(ee.xfers[t]) = 1
    /\ ee.pc[u] = "semtake" /\ ee.op[u] = "read"
    /\ ee.sem = 0

====
